---- MODULE Spec2Model ----
(***************************************************************************)
(* The Superstore dashboard (src/dashboard.py) and its report generator    *)
(* (src/report_generator.py) as a state machine.                           *)
(*                                                                         *)
(* dashboard.py is a Streamlit script: every user interaction reruns it    *)
(* from the top.  One rerun is modelled as a walk of pc through the        *)
(* script's sections; an uncaught exception or st.stop() ends the run.     *)
(* st.session_state.report is the only value that survives a rerun.        *)
(*                                                                         *)
(* A DataFrame is a bag of rows: a function from the distinct rows to the  *)
(* number of times each occurs (order lines that agree on every modelled   *)
(* column).  Money is in whole dollars, dates are [y, m, d] records, text  *)
(* is a sequence of Unicode code points.                                   *)
(***************************************************************************)
EXTENDS Integers, Sequences, FiniteSets, TLC

VARIABLES
    pc,             \* the section of dashboard.py the run is about to execute
    halted,         \* why the run ended early: "none", "stop", "exception"
    sheet,          \* the worksheet behind load_data()
    clicked,        \* the button whose click triggered this rerun, or "none"
    df,             \* df: the loaded frame, date-restricted after line 95
    date1, date2,   \* the two date inputs
    region, state, city,   \* the three sidebar multiselects
    filtered_df,    \* the WorkingSet
    kpi,            \* total_sales, total_profit, profit_margin, total_orders
    linechart,      \* the monthly series, in the order groupby returns it
    rfm,            \* outcome of the segmentation block
    report,         \* st.session_state.report
    report_locals,  \* total_sales, total_profit, profit_margin of generate_report's last call
    pdf,            \* what export_to_pdf returned in this run
    forecast        \* outcome of the forecasting block

vars == <<pc, halted, sheet, clicked, df, date1, date2, region, state, city,
          filtered_df, kpi, linechart, rfm, report, report_locals, pdf, forecast>>

(***************************************************************************)
(* Bounds of the model.                                                    *)
(***************************************************************************)
\* order lines per order in the largest worksheet
BulkLines == 50
\* customers of the segmentation data set
NumCustomers == 5
\* most orders one customer of the segmentation data set has
MaxOrders == 4
\* longest text handed to export_to_pdf directly
MaxLen == 3

(***************************************************************************)
(* Generic helpers.                                                        *)
(***************************************************************************)
RECURSIVE SumOver(_, _)
SumOver(S, f) ==
    IF S = {} THEN 0
    ELSE LET x == CHOOSE y \in S : TRUE
         IN  f[x] + SumOver(S \ {x}, f)

Max(a, b) == IF a >= b THEN a ELSE b

\* The elements of a finite set of integers, ascending.
RECURSIVE SortedSeq(_)
SortedSeq(S) ==
    IF S = {} THEN << >>
    ELSE LET lo == CHOOSE x \in S : \A y \in S : x <= y
         IN  <<lo>> \o SortedSeq(S \ {lo})

(***************************************************************************)
(* Dates.                                                                  *)
(***************************************************************************)
IsLeap(y) == (y % 4 = 0 /\ y % 100 # 0) \/ y % 400 = 0

DaysBeforeMonth(y, m) ==
    LET len == <<31, IF IsLeap(y) THEN 29 ELSE 28, 31, 30, 31, 30, 31, 31, 30, 31, 30, 31>>
    IN  SumOver(1..(m - 1), len)

\* Days since 0001-01-01, as datetime subtraction counts them.
Ordinal(d) ==
    LET y1 == d.y - 1
    IN  365 * y1 + (y1 \div 4) - (y1 \div 100) + (y1 \div 400)
        + DaysBeforeMonth(d.y, d.m) + d.d

DateLE(a, b) == Ordinal(a) <= Ordinal(b)

Date(y, m, d) == [y |-> y, m |-> m, d |-> d]

(***************************************************************************)
(* DataFrames as bags of rows.                                             *)
(***************************************************************************)
EmptyFrame == << >>

IsEmpty(frame) == DOMAIN frame = {}

\* len(frame)
Size(frame) == SumOver(DOMAIN frame, frame)

\* frame[mask]: the rows of frame that are in keep, with their multiplicities
Where(frame, keep) == [r \in DOMAIN frame \cap keep |-> frame[r]]

\* frame[col].sum()
ColumnSum(frame, col) ==
    SumOver(DOMAIN frame, [r \in DOMAIN frame |-> frame[r] * r[col]])

Row(o, c, dt, reg, st, ct, s, p) ==
    [OrderID |-> o, CustomerID |-> c, OrderDate |-> dt, Region |-> reg,
     State |-> st, City |-> ct, Sales |-> s, Profit |-> p]

\* The worksheet's distinct order lines.
SalesRows ==
    { Row(1, 1, Date(2014, 1, 15), "Central", "Illinois", "Springfield", 100, 10),
      Row(2, 2, Date(2014, 4, 3),  "Central", "Missouri", "Springfield", 200, -20),
      Row(3, 3, Date(2014, 8, 20), "East",    "New York", "Buffalo",     0,   -5),
      Row(4, 1, Date(2014, 1, 28), "Central", "Illinois", "Chicago",     300, 30) }

LineCounts == {1, BulkLines \div 2, BulkLines}

Sheets == { [r \in SalesRows |-> n] : n \in LineCounts }

\* The dates the two date pickers are set to.
DateChoices == { Date(2013, 12, 31), Date(2014, 8, 20) }

(***************************************************************************)
(* Text: sequences of code points.                                         *)
(***************************************************************************)
\* Python compares str values code point by code point.
RECURSIVE LexLess(_, _)
LexLess(a, b) ==
    IF b = << >> THEN FALSE
    ELSE IF a = << >> THEN TRUE
    ELSE IF Head(a) # Head(b) THEN Head(a) < Head(b)
    ELSE LexLess(Tail(a), Tail(b))

RECURSIVE DecimalDigits(_)
DecimalDigits(n) ==
    IF n < 10 THEN <<48 + n>>
    ELSE DecimalDigits(n \div 10) \o <<48 + (n % 10)>>

\* n in at least w digits, zero padded (%Y is four digits wide)
RECURSIVE ZeroPad(_, _)
ZeroPad(digits, w) == IF Len(digits) >= w THEN digits ELSE ZeroPad(<<48>> \o digits, w)

\* %b: Jan Feb Mar Apr May Jun Jul Aug Sep Oct Nov Dec
MonthAbbr ==
    << <<74, 97, 110>>, <<70, 101, 98>>,  <<77, 97, 114>>, <<65, 112, 114>>,
       <<77, 97, 121>>, <<74, 117, 110>>, <<74, 117, 108>>, <<65, 117, 103>>,
       <<83, 101, 112>>, <<79, 99, 116>>, <<78, 111, 118>>, <<68, 101, 99>> >>

\* to_period("M") then strftime("%Y : %b"): the day is dropped
MonthYearLabel(d) == ZeroPad(DecimalDigits(d.y), 4) \o <<32, 58, 32>> \o MonthAbbr[d.m]

\* pd.to_datetime(label, format="%Y : %b"): the first day of that month
ParseMonthYear(label) ==
    LET y == 1000 * (label[1] - 48) + 100 * (label[2] - 48) + 10 * (label[3] - 48) + (label[4] - 48)
        m == CHOOSE k \in 1..12 : MonthAbbr[k] = SubSeq(label, 8, 10)
    IN  Date(y, m, 1)

\* The texts of a finite set, ascending as Python orders str.
RECURSIVE SortedTexts(_)
SortedTexts(S) ==
    IF S = {} THEN << >>
    ELSE LET lo == CHOOSE x \in S : \A y \in S : x = y \/ LexLess(x, y)
         IN  <<lo>> \o SortedTexts(S \ {lo})

(***************************************************************************)
(* Date restriction and the sidebar filters (dashboard.py 86-125).         *)
(***************************************************************************)
\* df[(df["Order Date"] >= date1) & (df["Order Date"] <= date2)]
DateRestricted(frame, d1, d2) ==
    Where(frame, {r \in DOMAIN frame : DateLE(d1, r.OrderDate) /\ DateLE(r.OrderDate, d2)})

\* df["Region"].unique(), df2["State"].unique(), df3["City"].unique()
RegionOptions(frame) == { r.Region : r \in DOMAIN frame }
StateOptions(frame) == { r.State : r \in DOMAIN frame }
CityOptions(frame) == { r.City : r \in DOMAIN frame }

\* df2: the frame the state picker is filled from
DF2(frame, reg) ==
    IF reg = {} THEN frame ELSE Where(frame, {r \in DOMAIN frame : r.Region \in reg})

\* df3: the frame the city picker is filled from
DF3(df2, st) ==
    IF st = {} THEN df2 ELSE Where(df2, {r \in DOMAIN df2 : r.State \in st})

\* A chain in which a city selection is applied to the date-restricted frame.
FilteringLogicCityWins(frame, df2, df3, reg, st, ct) ==
    IF ct # {} THEN Where(frame, {r \in DOMAIN frame : r.City \in ct})
    ELSE IF st # {} THEN Where(frame, {r \in DOMAIN frame : r.State \in st})
    ELSE IF reg # {} THEN Where(frame, {r \in DOMAIN frame : r.Region \in reg})
    ELSE frame

\* the if/elif chain that picks filtered_df
FilteringLogic(frame, df2, df3, reg, st, ct) ==
    IF ct # {} THEN Where(df3, {r \in DOMAIN df3 : r.City \in ct})
    ELSE IF st # {} THEN Where(df2, {r \in DOMAIN df2 : r.State \in st})
    ELSE IF reg # {} THEN Where(frame, {r \in DOMAIN frame : r.Region \in reg})
    ELSE frame

(***************************************************************************)
(* KPI block (dashboard.py 128-136).                                       *)
(***************************************************************************)
\* Profit margin in hundredths of a percent, rounded to the nearest (the
\* metric shows two decimals).
MarginPercent(total_profit, total_sales) ==
    (2 * total_profit * 10000 + total_sales) \div (2 * total_sales)

\* The division without its guard.
profit_margin_unguarded(total_profit, total_sales) ==
    IF total_sales = 0
    THEN [raised |-> TRUE, value |-> 0]
    ELSE [raised |-> FALSE, value |-> MarginPercent(total_profit, total_sales)]

\* if total_sales > 0: (total_profit / total_sales) * 100, else 0.  The
\* operands are Python floats, whose division raises ZeroDivisionError on 0.
profit_margin(total_profit, total_sales) ==
    IF total_sales > 0
    THEN [raised |-> FALSE, value |-> MarginPercent(total_profit, total_sales)]
    ELSE [raised |-> FALSE, value |-> 0]

KpiBlock(frame) ==
    LET total_sales == ColumnSum(frame, "Sales")
        total_profit == ColumnSum(frame, "Profit")
        margin == profit_margin(total_profit, total_sales)
    IN  [raised |-> margin.raised,
         total_sales |-> total_sales,
         total_profit |-> total_profit,
         profit_margin |-> margin.value,
         total_orders |-> Cardinality({ r.OrderID : r \in DOMAIN frame })]

NoKpi == [raised |-> FALSE, total_sales |-> 0, total_profit |-> 0, profit_margin |-> 0, total_orders |-> 0]

(***************************************************************************)
(* Monthly series (dashboard.py 192-193).                                  *)
(***************************************************************************)
\* groupby(label)["Sales"].sum().reset_index(): one row per label, in the
\* order groupby sorts its keys, which for text keys is the order of str.
MonthlySeries(frame) ==
    LET labels == SortedTexts({ MonthYearLabel(r.OrderDate) : r \in DOMAIN frame })
    IN  [i \in 1..Len(labels) |->
            [month_year |-> labels[i],
             Sales |-> ColumnSum(Where(frame, {r \in DOMAIN frame : MonthYearLabel(r.OrderDate) = labels[i]}),
                                 "Sales")]]

(***************************************************************************)
(* Customer segmentation, RFM (dashboard.py 257-322).                      *)
(***************************************************************************)
\* pd.qcut(x, 4, ...): quartiles
Quartiles == 4

\* groupby('Customer ID'): one row per customer, ascending by customer id
CustomerIndex(frame) == SortedSeq({ r.CustomerID : r \in DOMAIN frame })

RowsOf(frame, c) == { r \in DOMAIN frame : r.CustomerID = c }

\* filtered_df['Order Date'].max() + pd.Timedelta(days=1), as an ordinal
snapshot_date(frame) ==
    1 + (CHOOSE o \in { Ordinal(r.OrderDate) : r \in DOMAIN frame } :
            \A r \in DOMAIN frame : Ordinal(r.OrderDate) <= o)

\* (snapshot_date - date.max()).days
Recency(frame, c) ==
    snapshot_date(frame)
    - (CHOOSE o \in { Ordinal(r.OrderDate) : r \in RowsOf(frame, c) } :
          \A r \in RowsOf(frame, c) : Ordinal(r.OrderDate) <= o)

\* 'Order ID': 'nunique'
Frequency(frame, c) == Cardinality({ r.OrderID : r \in RowsOf(frame, c) })

\* 'Sales': 'sum'
MonetaryValue(frame, c) == ColumnSum(Where(frame, RowsOf(frame, c)), "Sales")

\* Series.rank(method='first'): position in ascending order, ties in index order
RankFirst(xs) ==
    [i \in 1..Len(xs) |->
        1 + Cardinality({ j \in 1..Len(xs) : xs[j] < xs[i] \/ (xs[j] = xs[i] /\ j < i) })]

\* The values of xs in ascending order, repeats kept.
SortedValues(xs) ==
    [i \in 1..Len(xs) |->
        CHOOSE v \in { xs[j] : j \in 1..Len(xs) } :
            /\ Cardinality({ j \in 1..Len(xs) : xs[j] < v }) < i
            /\ i <= Cardinality({ j \in 1..Len(xs) : xs[j] <= v })]

\* Series.quantile([0, 1/q, ..., 1]) by linear interpolation, every edge
\* multiplied by q so that it stays an integer: edge k lies at position
\* (n-1)*k/q of the sorted values.
QuantileEdges(xs, q) ==
    LET s == SortedValues(xs)
        n == Len(xs)
    IN  [e \in 1..(q + 1) |->
            LET pos == (n - 1) * (e - 1)
                lo == pos \div q
                fr == pos % q
            IN  IF fr = 0 THEN q * s[lo + 1]
                ELSE q * s[lo + 1] + fr * (s[lo + 2] - s[lo + 1])]

\* searchsorted alone, the lowest value left outside the first bin.
BinIdLowestExcluded(x, q, edges) ==
    Cardinality({ e \in 1..Len(edges) : edges[e] < q * x })

\* bins.searchsorted(x, side="left"), then include_lowest: ids[x == bins[0]] = 1
BinId(x, q, edges) ==
    IF q * x = edges[1] THEN 1
    ELSE Cardinality({ e \in 1..Len(edges) : edges[e] < q * x })

\* A qcut that bins on repeated edges instead of raising.
QcutRepeatedEdges(xs, q, labels) ==
    LET edges == QuantileEdges(xs, q)
    IN  [raised |-> FALSE,
         codes |-> [i \in 1..Len(xs) |->
                       LET id == BinId(xs[i], q, edges)
                       IN  IF id \in 1..q THEN labels[id] ELSE 0]]

\* pd.qcut(xs, q, labels=labels): raised for a ValueError ("Bin edges must
\* be unique", or labels that are not one fewer than the edges), else one
\* label per value; a value outside every bin gets NaN, written 0.
Qcut(xs, q, labels) ==
    LET edges == QuantileEdges(xs, q)
    IN  IF \/ \E i, j \in 1..(q + 1) : i < j /\ edges[i] = edges[j]
           \/ Len(labels) # q
        THEN [raised |-> TRUE, codes |-> << >>]
        ELSE [raised |-> FALSE,
              codes |-> [i \in 1..Len(xs) |->
                            LET id == BinId(xs[i], q, edges)
                            IN  IF id \in 1..q THEN labels[id] ELSE 0]]

\* The eight segment names.
Hibernating == <<72, 105, 98, 101, 114, 110, 97, 116, 105, 110, 103>>
AtRisk == <<65, 116, 45, 82, 105, 115, 107>>
NeedsAttention == <<78, 101, 101, 100, 115, 32, 65, 116, 116, 101, 110, 116, 105, 111, 110>>
AboutToSleep == <<65, 98, 111, 117, 116, 32, 116, 111, 32, 83, 108, 101, 101, 112>>
LoyalCustomers == <<76, 111, 121, 97, 108, 32, 67, 117, 115, 116, 111, 109, 101, 114, 115>>
Promising == <<80, 114, 111, 109, 105, 115, 105, 110, 103>>
PotentialLoyalists == <<80, 111, 116, 101, 110, 116, 105, 97, 108, 32, 76, 111, 121, 97, 108, 105, 115, 116, 115>>
Champions == <<67, 104, 97, 109, 112, 105, 111, 110, 115>>

SegmentNames ==
    { Hibernating, AtRisk, NeedsAttention, AboutToSleep, LoyalCustomers,
      Promising, PotentialLoyalists, Champions }

\* A pattern is a sequence of character classes; the digits 1..4 are the
\* code points 49..52.
segment_map ==
    << [pattern |-> << {49, 50}, {49, 50} >>, value |-> Hibernating],
       [pattern |-> << {49, 50}, {51, 52} >>, value |-> AtRisk],
       [pattern |-> << {51}, {49, 50} >>,     value |-> NeedsAttention],
       [pattern |-> << {51}, {51} >>,         value |-> AboutToSleep],
       [pattern |-> << {51, 52}, {52} >>,     value |-> LoyalCustomers],
       [pattern |-> << {52}, {49, 50} >>,     value |-> Promising],
       [pattern |-> << {52}, {51} >>,         value |-> PotentialLoyalists],
       [pattern |-> << {52}, {52} >>,         value |-> Champions] >>

\* rx.match at the start of text
MatchesAt(pattern, text) ==
    /\ Len(pattern) <= Len(text)
    /\ \A k \in 1..Len(pattern) : text[k] \in pattern[k]

\* rx.search(text) is not None
RegexSearch(pattern, text) ==
    \E p \in 1..Len(text) : MatchesAt(pattern, SubSeq(text, p, Len(text)))

\* rx.sub(value, text): every non-overlapping match, left to right
RECURSIVE RegexSub(_, _, _)
RegexSub(pattern, value, text) ==
    IF text = << >> THEN << >>
    ELSE IF MatchesAt(pattern, text)
    THEN value \o RegexSub(pattern, value, SubSeq(text, Len(pattern) + 1, Len(text)))
    ELSE <<Head(text)>> \o RegexSub(pattern, value, Tail(text))

\* Series.replace(rules, regex=True) on one value: pandas takes the rules in
\* dict order; rule k is applied where rule k's pattern is found in the
\* ORIGINAL value, and rewrites the value as the earlier rules left it.
RECURSIVE ReplaceRules(_, _, _, _)
ReplaceRules(rules, k, original, current) ==
    IF k > Len(rules) THEN current
    ELSE ReplaceRules(rules, k + 1, original,
            IF RegexSearch(rules[k].pattern, original)
            THEN RegexSub(rules[k].pattern, rules[k].value, current)
            ELSE current)

\* astype(str) of a score; NaN prints as "nan"
ScoreText(score) == IF score = 0 THEN <<110, 97, 110>> ELSE DecimalDigits(score)

\* rfm_df['Segment']: the two score texts joined, then the rules
SegmentOf(r_score, f_score) ==
    LET key == ScoreText(r_score) \o ScoreText(f_score)
    IN  ReplaceRules(segment_map, 1, key, key)

r_labels == <<4, 3, 2, 1>>
fm_labels == <<1, 2, 3, 4>>

\* The try block: rfm_df with its scores and segments, or the exception.
RfmTable(frame) ==
    LET idx == CustomerIndex(frame)
        n == Len(idx)
        rec == [i \in 1..n |-> Recency(frame, idx[i])]
        frq == [i \in 1..n |-> Frequency(frame, idx[i])]
        mon == [i \in 1..n |-> MonetaryValue(frame, idx[i])]
        R == Qcut(rec, Quartiles, r_labels)
        F == Qcut(RankFirst(frq), Quartiles, fm_labels)
        M == Qcut(mon, Quartiles, fm_labels)
    IN  IF R.raised \/ F.raised \/ M.raised
        THEN [raised |-> TRUE, rows |-> << >>]
        ELSE [raised |-> FALSE,
              rows |-> [i \in 1..n |->
                [CustomerID |-> idx[i], Recency |-> rec[i], Frequency |-> frq[i],
                 MonetaryValue |-> mon[i], R_Score |-> R.codes[i], F_Score |-> F.codes[i],
                 M_Score |-> M.codes[i], Segment |-> SegmentOf(R.codes[i], F.codes[i])]]]

\* The whole block: "info" for the empty frame, "error" for a caught
\* exception, "segmented" with the table that is displayed otherwise.
SegmentationBlock(frame) ==
    IF IsEmpty(frame) THEN [status |-> "info", table |-> << >>]
    ELSE LET t == RfmTable(frame)
         IN  IF t.raised THEN [status |-> "error", table |-> << >>]
             ELSE [status |-> "segmented", table |-> t.rows]

NoRfm == [status |-> "none", table |-> << >>]

(***************************************************************************)
(* report_generator.py: format_currency and generate_report (5-95).        *)
(***************************************************************************)
\* f"{n:,}": the digits of n in groups of three
RECURSIVE GroupedDigits(_)
GroupedDigits(n) ==
    IF n < 1000 THEN DecimalDigits(n)
    ELSE GroupedDigits(n \div 1000) \o <<44>> \o ZeroPad(DecimalDigits(n % 1000), 3)

\* "$1,234.00" and "-$1,234.00"; amounts are whole dollars
format_currency(amount) ==
    IF amount >= 0 THEN <<36>> \o GroupedDigits(amount) \o <<46, 48, 48>>
    ELSE <<45, 36>> \o GroupedDigits(-amount) \o <<46, 48, 48>>

\* f"{m:.2f}" of a margin held in hundredths of a percent
FormatMargin(m) ==
    LET a == IF m >= 0 THEN m ELSE -m
    IN  (IF m < 0 THEN <<45>> ELSE << >>)
        \o DecimalDigits(a \div 100) \o <<46>> \o ZeroPad(DecimalDigits(a % 100), 2)

\* (total_profit / total_sales) * 100 if total_sales > 0 else 0
report_profit_margin(total_profit, total_sales) ==
    IF total_sales > 0
    THEN (2 * total_profit * 10000 + total_sales) \div (2 * total_sales)
    ELSE 0

\* The text returned for an empty frame.
NoDataReport ==
    << 35, 35, 35, 32, 9888, 65039, 32, 78, 111, 32, 68, 97, 116, 97, 32, 65,
       118, 97, 105, 108, 97, 98, 108, 101, 10, 10, 78, 111, 32, 100, 97, 116,
       97, 32, 109, 97, 116, 99, 104, 101, 115, 32, 116, 104, 101, 32, 99, 117,
       114, 114, 101, 110, 116, 32, 102, 105, 108, 116, 101, 114, 115, 46, 32,
       80, 108, 101, 97, 115, 101, 32, 115, 101, 108, 101, 99, 116, 32, 97, 32,
       98, 114, 111, 97, 100, 101, 114, 32, 100, 97, 116, 101, 32, 114, 97,
       110, 103, 101, 32, 111, 114, 32, 100, 105, 102, 102, 101, 114, 101, 110,
       116, 32, 102, 105, 108, 116, 101, 114, 32, 111, 112, 116, 105, 111, 110,
       115, 46 >>

\* The literal text of the report template up to each of its first three fields.
ReportHead ==
    << 10, 32, 32, 32, 32, 35, 35, 35, 32, 128200, 32, 42, 42, 65, 117, 116,
       111, 109, 97, 116, 101, 100, 32, 83, 97, 108, 101, 115, 32, 38, 32, 80,
       114, 111, 102, 105, 116, 32, 65, 110, 97, 108, 121, 115, 105, 115, 42,
       42, 10, 10, 32, 32, 32, 32, 72, 101, 114, 101, 32, 105, 115, 32, 97, 32,
       115, 117, 109, 109, 97, 114, 121, 32, 111, 102, 32, 116, 104, 101, 32,
       100, 97, 116, 97, 32, 98, 97, 115, 101, 100, 32, 111, 110, 32, 121, 111,
       117, 114, 32, 99, 117, 114, 114, 101, 110, 116, 32, 102, 105, 108, 116,
       101, 114, 115, 46, 10, 10, 32, 32, 32, 32, 45, 45, 45, 10, 10, 32, 32,
       32, 32, 35, 35, 35, 35, 32, 42, 42, 69, 120, 101, 99, 117, 116, 105,
       118, 101, 32, 83, 117, 109, 109, 97, 114, 121, 58, 42, 42, 10, 10, 32,
       32, 32, 32, 42, 32, 42, 42, 84, 111, 116, 97, 108, 32, 83, 97, 108, 101,
       115, 58, 42, 42, 32, 42, 42 >>

ReportProfitLine ==
    << 42, 42, 10, 32, 32, 32, 32, 42, 32, 42, 42, 84, 111, 116, 97, 108, 32,
       80, 114, 111, 102, 105, 116, 58, 42, 42, 32, 42, 42 >>

ReportMarginLine ==
    << 42, 42, 10, 32, 32, 32, 32, 42, 32, 42, 42, 79, 118, 101, 114, 97, 108,
       108, 32, 80, 114, 111, 102, 105, 116, 32, 77, 97, 114, 103, 105, 110,
       58, 42, 42, 32, 42, 42 >>

ReportMarginEnd == <<37, 42, 42, 10>>

\* generate_report's locals for a frame
ReportLocals(frame) ==
    LET total_sales == ColumnSum(frame, "Sales")
        total_profit == ColumnSum(frame, "Profit")
    IN  [called |-> TRUE, empty |-> IsEmpty(frame),
         total_sales |-> total_sales, total_profit |-> total_profit,
         profit_margin |-> report_profit_margin(total_profit, total_sales)]

NoReportLocals ==
    [called |-> FALSE, empty |-> FALSE, total_sales |-> 0, total_profit |-> 0, profit_margin |-> 0]

\* generate_report without its check for empty data.
generate_report_unchecked(frame) ==
    LET v == ReportLocals(frame)
    IN  ReportHead \o format_currency(v.total_sales)
        \o ReportProfitLine \o format_currency(v.total_profit)
        \o ReportMarginLine \o FormatMargin(v.profit_margin)
        \o ReportMarginEnd

\* generate_report(df).  The text is modelled through the Executive Summary's
\* three figures; the sentences after them insert names read from the data
\* (best region, category, sub-categories, peak month).
generate_report(frame) ==
    IF IsEmpty(frame) THEN NoDataReport
    ELSE LET v == ReportLocals(frame)
         IN  ReportHead \o format_currency(v.total_sales)
             \o ReportProfitLine \o format_currency(v.total_profit)
             \o ReportMarginLine \o FormatMargin(v.profit_margin)
             \o ReportMarginEnd

(***************************************************************************)
(* report_generator.py: PDF and export_to_pdf (97-134).                    *)
(***************************************************************************)
\* The chart emoji U+1F4C8 and the placeholder "?"
ChartEmoji == 128200
Placeholder == 63

\* cp1252 where it differs from Latin-1: <<byte, code point>>; the bytes
\* 0x81, 0x8D, 0x8F, 0x90 and 0x9D stand for nothing.
Cp1252High ==
    { <<128, 8364>>, <<130, 8218>>, <<131, 402>>, <<132, 8222>>, <<133,
      8230>>, <<134, 8224>>, <<135, 8225>>, <<136, 710>>, <<137, 8240>>,
      <<138, 352>>, <<139, 8249>>, <<140, 338>>, <<142, 381>>, <<145,
      8216>>, <<146, 8217>>, <<147, 8220>>, <<148, 8221>>, <<149, 8226>>,
      <<150, 8211>>, <<151, 8212>>, <<152, 732>>, <<153, 8482>>, <<154,
      353>>, <<155, 8250>>, <<156, 339>>, <<158, 382>>, <<159, 376>> }

Cp1252Encodable(c) ==
    \/ c \in 0..127
    \/ c \in 160..255
    \/ \E p \in Cp1252High : p[2] = c

\* str.encode('cp1252', 'ignore'): the code points cp1252 lacks are left out
EncodeCp1252Ignore(text) ==
    LET Known(c) == Cp1252Encodable(c)
        kept == SelectSeq(text, Known)
    IN  [i \in 1..Len(kept) |->
            IF kept[i] \in 0..127 \/ kept[i] \in 160..255 THEN kept[i]
            ELSE (CHOOSE p \in Cp1252High : p[2] = kept[i])[1]]

\* str.encode('cp1252', 'replace'): one byte per code point
EncodeCp1252Replace(text) ==
    [i \in 1..Len(text) |->
        IF text[i] \in 0..127 \/ text[i] \in 160..255 THEN text[i]
        ELSE IF \E p \in Cp1252High : p[2] = text[i]
        THEN (CHOOSE p \in Cp1252High : p[2] = text[i])[1]
        ELSE Placeholder]

\* bytes.decode('latin-1'): every byte is its own code point
DecodeLatin1(bytes) == [i \in 1..Len(bytes) |-> bytes[i]]

\* bytes.decode('cp1252')
DecodeCp1252(bytes) ==
    [i \in 1..Len(bytes) |->
        IF \E p \in Cp1252High : p[1] = bytes[i]
        THEN (CHOOSE p \in Cp1252High : p[1] = bytes[i])[2]
        ELSE bytes[i]]

\* re.sub(r'<chart emoji>', '', report_text)
RemoveChartEmoji(text) ==
    LET Keep(c) == c # ChartEmoji
    IN  SelectSeq(text, Keep)

\* pdf_safe_text: steps 1 to 4 of export_to_pdf
PdfSafeText(report_text) == DecodeCp1252(EncodeCp1252Replace(RemoveChartEmoji(report_text)))

\* PDF.header's title
HeaderTitle ==
    << 83, 117, 112, 101, 114, 115, 116, 111, 114, 101, 32, 83, 97, 108, 101,
       115, 32, 65, 110, 97, 108, 121, 115, 105, 115, 32, 82, 101, 112, 111,
       114, 116 >>

\* export_to_pdf(report_text): the document that pdf.output() serialises,
\* one page's header, body and footer.  FPDF itself is a library; it is
\* taken to lay out any cp1252 text, as line 114 says.
export_to_pdf(report_text) ==
    [made |-> TRUE, header |-> HeaderTitle, body |-> PdfSafeText(report_text),
     footer |-> <<80, 97, 103, 101, 32>> \o DecimalDigits(1)]

NoPdf == [made |-> FALSE, header |-> << >>, body |-> << >>, footer |-> << >>]

(***************************************************************************)
(* One rerun of dashboard.py, section by section.                          *)
(***************************************************************************)
\* df.sample(5) and filtered_df.sample(50)
SummarySample == 5
ScatterSample == 50

\* DataFrame.sample(n) without replacement raises ValueError when the frame
\* has fewer than n rows.
SampleRaises(frame, n) == Size(frame) < n

\* The latest order date of a non-empty frame.
MaxOrderDate(frame) ==
    (CHOOSE r \in DOMAIN frame : \A x \in DOMAIN frame : DateLE(x.OrderDate, r.OrderDate)).OrderDate

NoForecast == [status |-> "idle", input |-> << >>]

\* forecast_df: linechart renamed to ds, y with ds parsed back to a date
ForecastInput(series) ==
    [i \in 1..Len(series) |->
        [ds |-> ParseMonthYear(series[i].month_year), y |-> series[i].Sales]]

\* What every rerun starts from: the script's variables are unset.
FreshRun ==
    /\ halted' = "none"
    /\ df' = EmptyFrame
    /\ date1' = Date(1, 1, 1) /\ date2' = Date(1, 1, 1)
    /\ region' = {} /\ state' = {} /\ city' = {}
    /\ filtered_df' = EmptyFrame
    /\ kpi' = NoKpi
    /\ linechart' = << >>
    /\ rfm' = NoRfm
    /\ report_locals' = NoReportLocals
    /\ pdf' = NoPdf
    /\ forecast' = NoForecast

Init ==
    /\ pc = "load"
    /\ sheet \in Sheets
    /\ clicked = "none"
    /\ report = << >>
    /\ halted = "none"
    /\ df = EmptyFrame
    /\ date1 = Date(1, 1, 1) /\ date2 = Date(1, 1, 1)
    /\ region = {} /\ state = {} /\ city = {}
    /\ filtered_df = EmptyFrame
    /\ kpi = NoKpi
    /\ linechart = << >>
    /\ rfm = NoRfm
    /\ report_locals = NoReportLocals
    /\ pdf = NoPdf
    /\ forecast = NoForecast

\* Lines 38-62: load_data() returns the worksheet, or an empty frame when
\* conn.read raises; an empty frame stops the run.
LoadData ==
    /\ pc = "load"
    /\ \E ok \in BOOLEAN :
        LET data == IF ok THEN sheet ELSE EmptyFrame
        IN  /\ df' = data
            /\ IF IsEmpty(data)
               THEN pc' = "ended" /\ halted' = "stop"
               ELSE pc' = "dates" /\ halted' = halted
    /\ UNCHANGED <<sheet, clicked, date1, date2, region, state, city, filtered_df,
                   kpi, linechart, rfm, report, report_locals, pdf, forecast>>

\* Lines 66-95: the two date inputs (the end date is capped at the latest
\* order date), the range check, the date restriction of df.
DateInputs ==
    /\ pc = "dates"
    /\ \E d1 \in DateChoices, d2 \in DateChoices :
        /\ DateLE(d2, MaxOrderDate(df))
        /\ date1' = d1
        /\ date2' = d2
        /\ IF ~DateLE(d1, d2)
           THEN pc' = "ended" /\ halted' = "stop" /\ df' = df
           ELSE pc' = "filter" /\ halted' = halted /\ df' = DateRestricted(df, d1, d2)
    /\ UNCHANGED <<sheet, clicked, region, state, city, filtered_df,
                   kpi, linechart, rfm, report, report_locals, pdf, forecast>>

\* Lines 98-125: each picker offers the values of the frame above it.
SidebarFilters ==
    /\ pc = "filter"
    /\ \E reg \in SUBSET RegionOptions(df) :
        \E st \in SUBSET StateOptions(DF2(df, reg)) :
            \E ct \in SUBSET CityOptions(DF3(DF2(df, reg), st)) :
                /\ region' = reg
                /\ state' = st
                /\ city' = ct
                /\ filtered_df' = FilteringLogic(df, DF2(df, reg), DF3(DF2(df, reg), st), reg, st, ct)
    /\ pc' = "kpi"
    /\ UNCHANGED <<halted, sheet, clicked, df, date1, date2,
                   kpi, linechart, rfm, report, report_locals, pdf, forecast>>

\* Lines 128-150, outside any try.
KpiDashboard ==
    /\ pc = "kpi"
    /\ kpi' = KpiBlock(filtered_df)
    /\ IF KpiBlock(filtered_df).raised
       THEN pc' = "ended" /\ halted' = "exception"
       ELSE pc' = "timeseries" /\ halted' = halted
    /\ UNCHANGED <<sheet, clicked, df, date1, date2, region, state, city,
                   filtered_df, linechart, rfm, report, report_locals, pdf, forecast>>

\* Lines 155-215: the category and region charts, the monthly series and
\* its chart, the two pie charts.
TimeSeries ==
    /\ pc = "timeseries"
    /\ linechart' = MonthlySeries(filtered_df)
    /\ pc' = "summary"
    /\ UNCHANGED <<halted, sheet, clicked, df, date1, date2, region, state, city,
                   filtered_df, kpi, rfm, report, report_locals, pdf, forecast>>

\* Lines 219-233: df.sample(5) is outside any try.
SummaryTable ==
    /\ pc = "summary"
    /\ IF SampleRaises(df, SummarySample)
       THEN pc' = "ended" /\ halted' = "exception"
       ELSE pc' = "scatter" /\ halted' = halted
    /\ UNCHANGED <<sheet, clicked, df, date1, date2, region, state, city,
                   filtered_df, kpi, linechart, rfm, report, report_locals, pdf, forecast>>

\* Lines 235-254: the treemap, the scatter plot, filtered_df.sample(50),
\* outside any try.
ScatterData ==
    /\ pc = "scatter"
    /\ IF SampleRaises(filtered_df, ScatterSample)
       THEN pc' = "ended" /\ halted' = "exception"
       ELSE pc' = "rfm" /\ halted' = halted
    /\ UNCHANGED <<sheet, clicked, df, date1, date2, region, state, city,
                   filtered_df, kpi, linechart, rfm, report, report_locals, pdf, forecast>>

\* Lines 257-322.
Segmentation ==
    /\ pc = "rfm"
    /\ rfm' = SegmentationBlock(filtered_df)
    /\ pc' = "report"
    /\ UNCHANGED <<halted, sheet, clicked, df, date1, date2, region, state, city,
                   filtered_df, kpi, linechart, report, report_locals, pdf, forecast>>

\* Lines 325-354: the button, then the stored report and its PDF.
ReportSection ==
    /\ pc = "report"
    /\ LET pressed == clicked = "generate"
           stored == IF ~pressed THEN report
                     ELSE IF ~IsEmpty(filtered_df) THEN generate_report(filtered_df)
                     ELSE << >>
       IN  /\ report' = stored
           /\ report_locals' = IF pressed /\ ~IsEmpty(filtered_df)
                               THEN ReportLocals(filtered_df) ELSE report_locals
           /\ pdf' = IF stored # << >> THEN export_to_pdf(stored) ELSE NoPdf
    /\ pc' = "forecast"
    /\ UNCHANGED <<halted, sheet, clicked, df, date1, date2, region, state, city,
                   filtered_df, kpi, linechart, rfm, forecast>>

\* A forecasting block that runs on every rerun with a non-empty series,
\* whatever was clicked.
ForecastingUnprompted ==
    /\ pc = "forecast"
    /\ IF linechart = << >> THEN forecast' = [status |-> "warning", input |-> << >>]
       ELSE \E outcome \in {"shown", "error"} :
                forecast' = [status |-> outcome, input |-> ForecastInput(linechart)]
    /\ pc' = "done"
    /\ UNCHANGED <<halted, sheet, clicked, df, date1, date2, region, state, city,
                   filtered_df, kpi, linechart, rfm, report, report_locals, pdf>>

\* Lines 357-398: Prophet is a library; fitting or predicting may raise,
\* which the try catches.
Forecasting ==
    /\ pc = "forecast"
    /\ IF clicked # "forecast" THEN forecast' = NoForecast
       ELSE IF linechart = << >> THEN forecast' = [status |-> "warning", input |-> << >>]
       ELSE \E outcome \in {"shown", "error"} :
                forecast' = [status |-> outcome, input |-> ForecastInput(linechart)]
    /\ pc' = "done"
    /\ UNCHANGED <<halted, sheet, clicked, df, date1, date2, region, state, city,
                   filtered_df, kpi, linechart, rfm, report, report_locals, pdf>>

\* The next interaction reruns the script; st.session_state.report is kept.
Rerun ==
    /\ pc \in {"done", "ended"}
    /\ pc' = "load"
    /\ clicked' \in {"none", "generate", "forecast"}
    /\ FreshRun
    /\ UNCHANGED <<sheet, report>>

Next ==
    \/ LoadData
    \/ DateInputs
    \/ SidebarFilters
    \/ KpiDashboard
    \/ TimeSeries
    \/ SummaryTable
    \/ ScatterData
    \/ Segmentation
    \/ ReportSection
    \/ Forecasting
    \/ Rerun

Spec == Init /\ [][Next]_vars

(***************************************************************************)
(* The segmentation block on its own, applied to every frame drawn from a  *)
(* set of orders.  Customer c has OrdersOf(c) orders; its last order is    *)
(* on day LastDay(c) of January 2014, the earlier ones on the days before. *)
(***************************************************************************)
OrdersOf(c) == ((c - 1) % MaxOrders) + 1

LastDay(c) == MaxOrders + 1 - ((c - 1) % MaxOrders)

RfmRows ==
    { Row((MaxOrders + 1) * p[1] + p[2], p[1],
          Date(2014, 1, Max(1, LastDay(p[1]) - (OrdersOf(p[1]) - p[2]))),
          "East", "New York", "Buffalo", 10 * p[2], p[2]) :
        p \in { q \in (1..NumCustomers) \X (1..MaxOrders) : q[2] <= OrdersOf(q[1]) } }

RfmFrames == { [r \in S |-> 1] : S \in SUBSET RfmRows }

InitRFM ==
    /\ pc = "rfm"
    /\ filtered_df \in RfmFrames
    /\ sheet = EmptyFrame
    /\ clicked = "none"
    /\ report = << >>
    /\ halted = "none"
    /\ df = EmptyFrame
    /\ date1 = Date(1, 1, 1) /\ date2 = Date(1, 1, 1)
    /\ region = {} /\ state = {} /\ city = {}
    /\ kpi = NoKpi
    /\ linechart = << >>
    /\ rfm = NoRfm
    /\ report_locals = NoReportLocals
    /\ pdf = NoPdf
    /\ forecast = NoForecast

NextRFM == Segmentation

SpecRFM == InitRFM /\ [][NextRFM]_vars

(***************************************************************************)
(* generate_report and export_to_pdf on their own: generate_report on      *)
(* every frame drawn from the worksheet's rows, export_to_pdf on every     *)
(* short text over an alphabet of ASCII, markdown markers, cp1252 letters  *)
(* and symbols, and code points cp1252 lacks, and on its own output.       *)
(***************************************************************************)
\* a ? # * e-acute euro U+0081 chart-emoji warning-sign
Alphabet == {97, 63, 35, 42, 233, 8364, 129, 128200, 9888}

Texts == UNION { [1..n -> Alphabet] : n \in 0..MaxLen }

ReportFrames == { [r \in S |-> 1] : S \in SUBSET SalesRows }

InitExport ==
    /\ \/ pc = "generate" /\ filtered_df \in ReportFrames /\ report = << >>
       \/ pc = "export" /\ filtered_df = EmptyFrame /\ report \in Texts
    /\ sheet = EmptyFrame
    /\ clicked = "none"
    /\ halted = "none"
    /\ df = EmptyFrame
    /\ date1 = Date(1, 1, 1) /\ date2 = Date(1, 1, 1)
    /\ region = {} /\ state = {} /\ city = {}
    /\ kpi = NoKpi
    /\ linechart = << >>
    /\ rfm = NoRfm
    /\ report_locals = NoReportLocals
    /\ pdf = NoPdf
    /\ forecast = NoForecast

\* report = generate_report(frame)
CallGenerateReport ==
    /\ pc = "generate"
    /\ report' = generate_report(filtered_df)
    /\ report_locals' = IF IsEmpty(filtered_df) THEN [NoReportLocals EXCEPT !.called = TRUE, !.empty = TRUE]
                        ELSE ReportLocals(filtered_df)
    /\ pc' = "export"
    /\ UNCHANGED <<halted, sheet, clicked, df, date1, date2, region, state, city,
                   filtered_df, kpi, linechart, rfm, pdf, forecast>>

\* pdf = export_to_pdf(report)
CallExportToPdf ==
    /\ pc = "export"
    /\ pdf' = export_to_pdf(report)
    /\ pc' = "exported"
    /\ UNCHANGED <<halted, sheet, clicked, df, date1, date2, region, state, city,
                   filtered_df, kpi, linechart, rfm, report, report_locals, forecast>>

\* pdf = export_to_pdf(the text the first export put in the document)
CallExportAgain ==
    /\ pc = "exported"
    /\ pdf' = export_to_pdf(pdf.body)
    /\ pc' = "reexported"
    /\ UNCHANGED <<halted, sheet, clicked, df, date1, date2, region, state, city,
                   filtered_df, kpi, linechart, rfm, report, report_locals, forecast>>

NextExport ==
    \/ CallGenerateReport
    \/ CallExportToPdf
    \/ CallExportAgain

SpecExport == InitExport /\ [][NextExport]_vars

(***************************************************************************)
(* The dashboard's reruns together with the two functions on their own.    *)
(***************************************************************************)
InitReport == Init \/ InitExport

NextReport == Next \/ NextExport

SpecReport == InitReport /\ [][NextReport]_vars

(***************************************************************************)
(* Properties.                                                             *)
(***************************************************************************)
AllThreeSelected == region # {} /\ state # {} /\ city # {}

\* C1 as stated: with region, state and city all selected, the WorkingSet is
\* the date-restricted frame filtered by the city selection alone.
FilterIsCityOnly ==
    AllThreeSelected =>
        filtered_df = Where(df, {r \in DOMAIN df : r.City \in city})

\* C1 as amended: with region, state and city all selected, the WorkingSet is
\* the rows of the date-restricted frame that satisfy all three selections.
FilterIsIntersection ==
    AllThreeSelected =>
        filtered_df = Where(df, {r \in DOMAIN df :
                                    r.Region \in region /\ r.State \in state /\ r.City \in city})

\* All three selected, and a selected city also has rows outside the
\* selected states.
FilterIntersectionWitness ==
    /\ AllThreeSelected
    /\ pc = "kpi"
    /\ \E r \in DOMAIN df : r.City \in city /\ r.State \notin state

\* C2: every customer with recency score 4 and frequency score 4 is in the
\* segment Champions.
Key44IsChampions ==
    \A i \in DOMAIN rfm.table :
        (rfm.table[i].R_Score = 4 /\ rfm.table[i].F_Score = 4)
            => rfm.table[i].Segment = Champions

\* The customer population of the WorkingSet and its three RFM dimensions.
Population == { r.CustomerID : r \in DOMAIN filtered_df }
RecencyValues == { Recency(filtered_df, c) : c \in Population }
FrequencyValues == { Frequency(filtered_df, c) : c \in Population }
MonetaryValues == { MonetaryValue(filtered_df, c) : c \in Population }

SegmentationRan == rfm.status # "none"

FourDistinctValues ==
    /\ Cardinality(RecencyValues) >= 4
    /\ Cardinality(FrequencyValues) >= 4
    /\ Cardinality(MonetaryValues) >= 4

\* Every customer has a row whose three scores are in 1..4 and whose segment
\* is one of the eight names.
ScoringIsTotal ==
    /\ rfm.status = "segmented"
    /\ { rfm.table[i].CustomerID : i \in DOMAIN rfm.table } = Population
    /\ Len(rfm.table) = Cardinality(Population)
    /\ \A i \in DOMAIN rfm.table :
        /\ rfm.table[i].R_Score \in 1..4
        /\ rfm.table[i].F_Score \in 1..4
        /\ rfm.table[i].M_Score \in 1..4
        /\ rfm.table[i].Segment \in SegmentNames

\* The five quartile boundaries (minimum, 25%, 50%, 75%, maximum) of the
\* values, four-fold, are pairwise different.
EdgesDiffer(values) ==
    LET e == QuantileEdges(values, Quartiles)
    IN  \A i, j \in 1..(Quartiles + 1) : i < j => e[i] # e[j]

QuartileEdgesDiffer ==
    LET idx == CustomerIndex(filtered_df)
    IN  /\ idx # << >>
        /\ EdgesDiffer([i \in 1..Len(idx) |-> Recency(filtered_df, idx[i])])
        /\ EdgesDiffer([i \in 1..Len(idx) |-> MonetaryValue(filtered_df, idx[i])])

\* C3 as stated: a population with at least 4 distinct values in each of
\* recency, frequency and monetary is segmented, with every score in 1..4
\* and every key mapped to one of the eight segments.
ScoringTotalOnFourDistinctValues ==
    (SegmentationRan /\ FourDistinctValues) => ScoringIsTotal

\* C3 as amended: a population whose recency quartile boundaries are pairwise
\* different, and whose monetary quartile boundaries are, is segmented, with
\* every score in 1..4 and every key mapped to one of the eight segments.
ScoringTotalOnDistinctEdges ==
    (SegmentationRan /\ QuartileEdgesDiffer) => ScoringIsTotal

\* A segmented population with at least 4 distinct values in each dimension.
ScoringTotalWitness ==
    SegmentationRan /\ FourDistinctValues /\ QuartileEdgesDiffer /\ rfm.status = "segmented"

NothingAssigned == rfm.status \in {"info", "error"} /\ rfm.table = << >>

\* C4 as stated: a population with fewer than 4 distinct values in some RFM
\* dimension ends in the insufficient-data outcome with nothing assigned.
FewDistinctValuesInsufficient ==
    (SegmentationRan /\ ~FourDistinctValues) => NothingAssigned

\* C4 as amended: an empty WorkingSet, or a population with fewer than 2
\* distinct recency values or fewer than 2 distinct monetary values (a single
\* customer among them), ends with nothing assigned.
NoSpreadInsufficient ==
    (SegmentationRan /\ (Cardinality(RecencyValues) < 2 \/ Cardinality(MonetaryValues) < 2))
        => NothingAssigned

\* A single customer with a single order, reported as an error.
NoSpreadWitness ==
    /\ Cardinality(DOMAIN filtered_df) = 1
    /\ rfm.status = "error"

\* The KPI block of this rerun has been executed.
KpiRan ==
    \/ pc \in {"timeseries", "summary", "scatter", "rfm", "report", "forecast", "done"}
    \/ pc = "ended" /\ halted = "exception"

\* C5: for every WorkingSet whose total sales is 0, the empty one included,
\* the KPI block does not fail and its profit margin is exactly 0; for the
\* empty WorkingSet sales, profit and order count are 0 too; and the report
\* generator's margin is 0 as well whenever its total sales is 0.
ZeroSalesMarginIsZero ==
    /\ KpiRan =>
        /\ ~kpi.raised
        /\ kpi.total_sales = ColumnSum(filtered_df, "Sales")
        /\ kpi.total_sales = 0 => kpi.profit_margin = 0
        /\ IsEmpty(filtered_df) =>
            kpi.total_sales = 0 /\ kpi.total_profit = 0 /\ kpi.total_orders = 0
    /\ (report_locals.called /\ report_locals.total_sales = 0) =>
            report_locals.profit_margin = 0

\* A non-empty WorkingSet of zero sales whose report has been generated.
ZeroSalesWitness ==
    /\ pc = "forecast"
    /\ ~IsEmpty(filtered_df)
    /\ kpi.total_sales = 0 /\ kpi.total_profit # 0 /\ kpi.profit_margin = 0
    /\ report_locals.called /\ report_locals.total_sales = 0

\* C6: the monthly series is in chronological order, an earlier month before
\* a later one.
MonthlySeriesChronological ==
    \A i, j \in DOMAIN linechart :
        i < j => Ordinal(ParseMonthYear(linechart[i].month_year))
                    < Ordinal(ParseMonthYear(linechart[j].month_year))

\* C10: a rerun that got past loading and the date check is never ended by
\* a failure: it ends only where the script stops itself.
NoStageIsFatal == pc = "ended" => halted = "stop"

\* C7 as stated: a generate press on an empty WorkingSet leaves the no-data
\* narrative as the report and a document made from it.
EmptyGenerateGivesNoDataDocument ==
    (clicked = "generate" /\ IsEmpty(filtered_df) /\ pc \in {"done", "ended"} /\ halted # "stop")
        => (report = NoDataReport /\ pdf.made)

\* C7 as amended: generate_report on an empty WorkingSet returns the no-data
\* narrative, and export_to_pdf of that narrative makes a document with the
\* header, a non-empty body and the footer; the dashboard itself never hands
\* an empty WorkingSet to generate_report: a generate press on an empty
\* WorkingSet stores no no-data narrative and makes no document in that rerun.
EmptyReportIsNoDataNarrative ==
    /\ (report_locals.called /\ report_locals.empty) => report = NoDataReport
    /\ (pc = "exported" /\ report = NoDataReport) =>
        /\ pdf.made
        /\ pdf.header = HeaderTitle
        /\ pdf.body # << >>
        /\ pdf.footer # << >>
    /\ (clicked = "generate" /\ IsEmpty(filtered_df) /\ pc \in {"done", "ended"} /\ halted # "stop")
        => (report # NoDataReport /\ ~pdf.made)

\* generate_report called on an empty frame and its narrative exported.
EmptyReportWitness ==
    /\ pc = "exported"
    /\ report_locals.called /\ report_locals.empty
    /\ IsEmpty(filtered_df)
    /\ report = NoDataReport
    /\ pdf.made

\* A text without the markdown markers # and *.
Unmarked(text) ==
    LET Keep(c) == c \notin {35, 42}
    IN  SelectSeq(text, Keep)

\* Each code point kept if cp1252 has it, else turned into the placeholder.
PlaceholderFor(text) ==
    [i \in 1..Len(text) |-> IF Cp1252Encodable(text[i]) THEN text[i] ELSE Placeholder]

\* C8 as stated: every code point cp1252 lacks becomes exactly one
\* placeholder and none is dropped, so that, markdown markers apart, the
\* document's text has the code points of the input one for one.
EveryUnsupportedReplaced ==
    (pc = "exported") =>
        (pdf.made /\ Unmarked(pdf.body) = PlaceholderFor(Unmarked(report)))

\* C8 as amended: the chart emoji U+1F4C8 is removed; every other code point
\* cp1252 lacks becomes exactly one placeholder; every code point cp1252 has,
\* markdown markers included, is kept; the export never fails.
UnsupportedReplacedButChartEmoji ==
    (pc = "exported") =>
        /\ pdf.made
        /\ pdf.body = PlaceholderFor(RemoveChartEmoji(report))
        /\ Len(pdf.body) = Len(report) - Cardinality({ i \in DOMAIN report : report[i] = ChartEmoji })

\* An exported text holding the chart emoji, another code point cp1252
\* lacks and a markdown marker.
UnsupportedReplacedWitness ==
    /\ pc = "exported"
    /\ \E i \in DOMAIN report : report[i] = ChartEmoji
    /\ \E i \in DOMAIN report : report[i] # ChartEmoji /\ ~Cp1252Encodable(report[i])
    /\ \E i \in DOMAIN report : report[i] \in {35, 42}
    /\ Len(pdf.body) = Len(report) - 1

\* C9: exporting the text of an exported document gives the same document
\* as exporting the original text.
ExportIdempotent == pc = "reexported" => pdf = export_to_pdf(report)

\* A re-exported text mixing the chart emoji, a symbol and plain ASCII.
ExportIdempotentWitness ==
    /\ pc = "reexported"
    /\ \E i \in DOMAIN report : report[i] = ChartEmoji
    /\ \E i \in DOMAIN report : report[i] \in {8364, 9888}
    /\ \E i \in DOMAIN report : report[i] = 97

\* Prophet has been handed the series in this rerun (lines 374-379).
ForecasterInvoked == forecast.status \in {"shown", "error"}

\* C11: over any sequence of reruns the forecaster is invoked only in a
\* rerun whose click was "Run Forecast" and whose monthly series is not
\* empty, and it is handed that series; and the step in which the forecaster
\* fails leaves the KPI values, the segmentation result and the stored
\* report as they were.
ForecastTriggeredAndIsolated ==
    /\ [](ForecasterInvoked =>
            /\ clicked = "forecast"
            /\ linechart # << >>
            /\ forecast.input = ForecastInput(linechart))
    /\ [][forecast'.status = "error" => UNCHANGED <<kpi, rfm, report>>]_vars

\* A rerun triggered by "Run Forecast" in which the forecaster failed after
\* KPIs, a segmentation and a stored report were there.
ForecastIsolatedWitness ==
    /\ pc = "done"
    /\ clicked = "forecast"
    /\ forecast.status = "error"
    /\ kpi.total_orders > 0
    /\ rfm.status = "segmented"
    /\ report # << >>

\* A rerun that got past loading and the date check is over.
RerunOver == pc \in {"done", "ended"} /\ halted # "stop"

\* C12: a rerun in which "Generate Analysis Report" was pressed ends with
\* the stored report set to the narrative of that rerun's WorkingSet when it
\* is non-empty, and to the empty string when it is empty, so that the stored
\* report derives from the WorkingSet of the last generate press.
GeneratePressSetsStoredReport ==
    (RerunOver /\ clicked = "generate") =>
        report = IF IsEmpty(filtered_df) THEN << >> ELSE generate_report(filtered_df)

\* The stored report changes in no step but one of a rerun triggered by the
\* generate button, and then to the narrative of that rerun's WorkingSet.
StoredReportChangesOnlyOnGenerate ==
    [][report' # report =>
        /\ clicked = "generate"
        /\ ~IsEmpty(filtered_df)
        /\ report' = generate_report(filtered_df)]_vars

\* A generate press on an empty WorkingSet after which an earlier report is
\* still stored.
StaleReportAfterGenerate ==
    /\ RerunOver /\ clicked = "generate"
    /\ IsEmpty(filtered_df)
    /\ report # << >>
====
